---- MODULE Spec2Model ----
(***************************************************************************)
(* Conversation orchestration core of arbot-puppet: the Message/Session    *)
(* schema, the two ConversationEngine classes (the Session/Message one,    *)
(* "schema", and the history-array one, "simple"), and the APIClient with  *)
(* its retry wrapper.                                                      *)
(*                                                                         *)
(* JavaScript runs one task at a time: code between two awaits is one      *)
(* atomic step.  The awaits that let other tasks run are the network       *)
(* round trip (fetch) and the backoff timer (setTimeout); an action of     *)
(* this model is the code that runs from one such suspension to the next.  *)
(*                                                                         *)
(* The objects share no state, so a behaviour exercises one of them:       *)
(* `subject` names the object under analysis and is fixed by Init.  Under  *)
(* "session" the Message and Session classes, and under "hint" the method  *)
(* selectAnimationHint, are called directly, as a unit test calls them;    *)
(* so are APIClient.setProvider under "provider", the Puppet class under   *)
(* "puppet" and the StateManager under "state".  Under "app" the subject   *)
(* is ARPuppetApp.handleUserMessage with the engine and the UI it drives.  *)
(*                                                                         *)
(* Texts are sequences of characters, so that trim() and includes() are    *)
(* computed.  "FWQ" and "FWE" stand for the full-width question and        *)
(* exclamation marks, "x" for any other non-blank character.               *)
(***************************************************************************)
EXTENDS Integers, Sequences, FiniteSets, TLC

VARIABLES
    subject,    \* "schema" | "simple" | "client" | "session" | "hint" |
                \* "app" | "provider" | "puppet" | "state"
    cfg,        \* its configuration and environment (API key, provider, caps)
    eng,        \* schema engine: [session (a Session or NoSession), isProcessing]
    nsessions,  \* number of Session objects constructed (their identities)
    simple,     \* simple engine: [conversationHistory, isProcessing]
    acts,       \* activations of async calls that are suspended at an await
    ncalls,     \* number of turn / send calls made so far
    clock,      \* number of Message objects constructed (ids and timestamps)
    last,       \* what the latest completed call or operation did
    probe,      \* the latest direct call, its argument and its result
    ui,         \* application: [inputEnabled], the input field and send button
    puppetState, \* Puppet: [animationStates]
    store       \* StateManager: state, subscribers, history, and its calls

vars == <<subject, cfg, eng, nsessions, simple, acts, ncalls, clock, last, probe,
          ui, puppetState, store>>

----------------------------------------------------------------------------
(* Bounds of the model *)

MaxCalls == 2       \* processUserMessage / sendMessage calls per behaviour
MaxSessions == 2    \* Session objects constructed per behaviour
MaxRetriesCfg == 3  \* largest `retries` an APIClient is configured with
SmallCap == 2       \* the small history cap tried beside the default
MaxTextLen == 3     \* length of the texts handed to selectAnimationHint
MaxUnitHistory == 3 \* messages added to the Session that is called directly
MaxSubscribes == 2  \* subscribe calls on the StateManager
MaxSetStates == 2   \* setState calls on the StateManager

(* Program constants *)

EngineMaxRetries == 3      \* const maxRetries = 3
BaseDelay == 1000          \* Math.pow(2, attempt - 1) * 1000
DefaultRetries == 3        \* config.retries || 3
DefaultMaxHistory == 10    \* config.maxHistoryLength || 10, config.maxHistory || 10

----------------------------------------------------------------------------
(* Texts *)

Blank == " "

RECURSIVE TrimStart(_)
TrimStart(s) ==
    IF s # <<>> /\ Head(s) = Blank THEN TrimStart(Tail(s)) ELSE s

RECURSIVE TrimEnd(_)
TrimEnd(s) ==
    IF s # <<>> /\ s[Len(s)] = Blank THEN TrimEnd(SubSeq(s, 1, Len(s) - 1)) ELSE s

\* String.prototype.trim
Trim(s) == TrimEnd(TrimStart(s))

\* String.prototype.includes, for a one-character needle
Includes(s, c) == \E i \in 1..Len(s) : s[i] = c

\* Array.prototype.slice(-limit); slice(-0) is slice(0), the whole array
SliceLast(h, limit) ==
    IF limit = 0 \/ limit >= Len(h) THEN h
    ELSE SubSeq(h, Len(h) - limit + 1, Len(h))

\* the characters selectAnimationHint tells apart, and one it does not
Chars == {"x", "?", "!", "FWQ", "FWE"}

\* every text of at most n characters
TextsUpTo(n) == UNION { [1..k -> Chars] : k \in 0..n }

UserTexts == { <<>>, <<Blank>>, <<"x">> }

\* bodies a provider answers with: "", "x! " and "x?"
Replies == { <<>>, <<"x", "!", Blank>>, <<"x", "?">> }

GreetingText == <<"x", "FWE">>        \* '你好！...很高兴见到你！'
NoAnswerText == <<"x", ".">>          \* '我想不出好的回答...'
FallbackText == <<"x", "FWQ">>        \* '抱歉，我现在有点困惑。请再说一遍？'

----------------------------------------------------------------------------
(* Values *)

Null == [kind |-> "null"]
Undefined == [kind |-> "undefined"]
NoError == [kind |-> "none", attempt |-> 0]
Err(kind, attempt) == [kind |-> kind, attempt |-> attempt]

NoMetadata == [k \in {} |-> ""]
HintMetadata(h) == [k \in {"animationHint"} |-> h]
HintOf(msg) ==
    IF "animationHint" \in DOMAIN msg.metadata
    THEN msg.metadata["animationHint"] ELSE "undefined"

----------------------------------------------------------------------------
(* schema/message.js *)

\* new Message(f): every field the argument object f leaves out takes its
\* default; the defaults of id and timestamp, crypto.randomUUID() and
\* Date.now(), are drawn from the logical clock n.  Nothing is validated.
MessageCtor(n, f) ==
    [id |-> IF "id" \in DOMAIN f THEN f.id ELSE n,
     sender |-> IF "sender" \in DOMAIN f THEN f.sender ELSE "user",
     text |-> IF "text" \in DOMAIN f THEN f.text ELSE <<>>,
     timestamp |-> IF "timestamp" \in DOMAIN f THEN f.timestamp ELSE n,
     type |-> IF "type" \in DOMAIN f THEN f.type ELSE "text",
     metadata |-> IF "metadata" \in DOMAIN f THEN f.metadata ELSE NoMetadata]

\* new Message({sender, text, type, metadata}), as the engine calls it
NewMessage(n, sender, text, type, metadata) ==
    MessageCtor(n, [sender |-> sender, text |-> text, type |-> type,
                    metadata |-> metadata])

\* mutant: toJSON leaves the timestamp out
ToJSON_NoTimestamp(msg) ==
    [id |-> msg.id, sender |-> msg.sender, text |-> msg.text,
     type |-> msg.type, metadata |-> msg.metadata]

\* toJSON: a plain object with the six fields of the message
ToJSON(msg) ==
    [id |-> msg.id, sender |-> msg.sender, text |-> msg.text,
     timestamp |-> msg.timestamp, type |-> msg.type,
     metadata |-> msg.metadata]

\* Message.validate(msg) reads msg.id first: on null or undefined that
\* property access throws a TypeError
ValidateThrows(msg) == msg \in {Null, Undefined}

\* Message.validate.  An id is a positive number standing for a UUID string,
\* 0 for a missing one; a timestamp is a number iff it is >= 0.
MessageValidate(msg) ==
    /\ msg.id > 0
    /\ msg.sender \in {"user", "puppet"}
    /\ msg.text # <<>>
    /\ msg.timestamp >= 0
    /\ msg.type \in {"text", "voice"}

----------------------------------------------------------------------------
(* schema/session.js *)

\* this.session = null.  A Session that the engine has replaced is referenced
\* by nothing and is dropped from the state.
NoSession == [sessionId |-> 0]

NewSession(sid, userId) ==
    [sessionId |-> sid, userId |-> userId, active |-> TRUE,
     conversationHistory |-> <<>>]

\* Session.addMessage: the session after the call
SessionAddMessage(s, msg) ==
    IF MessageValidate(msg)
    THEN [s EXCEPT !.conversationHistory = Append(@, msg)]
    ELSE s

\* Session.addMessage: the value returned
SessionAddMessageResult(s, msg) == MessageValidate(msg)

\* Session.getConversationContext
GetConversationContext(s, limit) == SliceLast(s.conversationHistory, limit)

\* mutant: endSession toggles the flag
SessionEndSession_Toggle(s) == [s EXCEPT !.active = ~@]

\* Session.endSession
SessionEndSession(s) == [s EXCEPT !.active = FALSE]

----------------------------------------------------------------------------
(* Events and call records *)

\* An emitted event: its name and payload, whether the payload was in the
\* history when it was emitted, and how many listeners emit invoked
Ev(name, data, stored, heard) ==
    [event |-> name, data |-> data, stored |-> stored, heard |-> heard]

\* this.listeners[event], in the order of the on(event, callback) calls.  A
\* listener either returns ("ok") or throws ("throws"); the application has
\* registered one listener for every event and, for the event cfg.throwOn,
\* a throwing listener before it.
Listeners(event) ==
    IF cfg.throwOn = event THEN <<"throws", "ok">> ELSE <<"ok">>

\* emit of the Session/Message engine: forEach with a try/catch around each
\* callback, so every listener is invoked and nothing is thrown
Emit(event) == [heard |-> Len(Listeners(event)), threw |-> FALSE]

\* emit of the history-array engine: forEach with no try/catch, so the
\* first listener that throws ends the loop and emit throws its error
EmitUncaught(event) ==
    LET ls == Listeners(event)
        thr == { i \in 1..Len(ls) : ls[i] = "throws" }
        first == IF thr = {} THEN 0
                 ELSE CHOOSE i \in thr : \A j \in thr : i <= j
    IN  [heard |-> IF first = 0 THEN Len(ls) ELSE first, threw |-> first # 0]

\* An activation of an async call, suspended at an await.
\*   pc       "fetch": awaiting the provider; "backoff": awaiting setTimeout
\*   attempt  the loop counter of the retry wrapper (0: not entered)
\*   waits    the delays passed to setTimeout so far, in order
\*   fetches  number of fetch() calls issued
\*   failures number of attempts that have failed
\*   armed    whether the pending fetch carries an abort (timeout) signal
\*   keyed    whether the pending fetch carries an API key
\*   context  the messages of the request body
\*   sids     the identities of the Sessions the call added a message to
NewAct(cid, text) ==
    [cid |-> cid, pc |-> "start", text |-> text, attempt |-> 0,
     lastError |-> NoError, waits |-> <<>>, fetches |-> 0, failures |-> 0,
     events |-> <<>>, armed |-> FALSE, keyed |-> FALSE,
     result |-> Null, context |-> <<>>, sids |-> <<>>]

\* What the retry wrapper of a call handed to its caller
Wrapped(a) ==
    [status |-> IF a.pc \in {"returned", "thrown"} THEN a.pc ELSE "none",
     error |-> IF a.pc = "thrown" THEN a.lastError ELSE NoError,
     value |-> IF a.pc = "returned" THEN a.result ELSE Null]

NotWrapped == [status |-> "none", error |-> NoError, value |-> Null]

\* The record of a completed call
Done(op, a, ret, thrown) ==
    [op |-> op, cid |-> a.cid, ret |-> ret, thrown |-> thrown,
     attempts |-> a.attempt, wrapped |-> Wrapped(a),
     waits |-> a.waits, fetches |-> a.fetches, failures |-> a.failures,
     events |-> a.events, sids |-> a.sids]

\* The record of a synchronous operation
Op(op, ret, events) ==
    [op |-> op, cid |-> 0, ret |-> ret, thrown |-> NoError, attempts |-> 0,
     wrapped |-> NotWrapped,
     waits |-> <<>>, fetches |-> 0, failures |-> 0, events |-> events,
     sids |-> <<>>]

\* The record of an accepted call that is suspended
Pending(op, cid) ==
    [op |-> op, cid |-> cid, ret |-> [kind |-> "pending"], thrown |-> NoError,
     attempts |-> 0, wrapped |-> NotWrapped,
     waits |-> <<>>, fetches |-> 0, failures |-> 0,
     events |-> <<>>, sids |-> <<>>]

----------------------------------------------------------------------------
(* Retry arithmetic *)

RECURSIVE Pow2(_)
Pow2(n) == IF n = 0 THEN 1 ELSE 2 * Pow2(n - 1)

\* mutant: the exponent is the attempt number itself
BackoffDelay_OffByOne(attempt) == Pow2(attempt) * BaseDelay

\* const delay = Math.pow(2, attempt - 1) * 1000
BackoffDelay(attempt) == Pow2(attempt - 1) * BaseDelay

RECURSIVE SumSeq(_)
SumSeq(s) == IF s = <<>> THEN 0 ELSE Head(s) + SumSeq(Tail(s))

----------------------------------------------------------------------------
(* Provider outcomes of one fetch *)

\* "ok": a 2xx response whose body holds the reply text `body`;
\* "http": a non-2xx response (a rejected fetch takes the same path);
\* "malformed": a 2xx response without the choices / content member;
\* "nocontent": a 2xx response whose choices / content array is there but
\*       holds no text at [0] ({choices: []}, {choices: [{}]}, {content: []}).
Outcomes ==
    { [kind |-> "ok", body |-> r] : r \in Replies } \cup
    { [kind |-> k, body |-> <<>>] : k \in {"http", "malformed", "nocontent"} }

----------------------------------------------------------------------------
(* ai/conversation.js, the Session/Message engine *)

\* mutant: the exclamation marks are tested first
SelectAnimationHint_ExclamationFirst(text) ==
    IF Includes(text, "FWE") \/ Includes(text, "!") THEN "happy"
    ELSE IF Includes(text, "FWQ") \/ Includes(text, "?") THEN "confused"
    ELSE "talking"

\* selectAnimationHint
SelectAnimationHint(text) ==
    IF Includes(text, "FWQ") \/ Includes(text, "?") THEN "confused"
    ELSE IF Includes(text, "FWE") \/ Includes(text, "!") THEN "happy"
    ELSE "talking"

InHistory(s, msg) ==
    \E i \in 1..Len(s.conversationHistory) : s.conversationHistory[i] = msg

\* generateAIResponse: conversationContext.map(msg => ({role, content}))
FormatMessages(ctx) ==
    [i \in 1..Len(ctx) |->
        [role |-> IF ctx[i].sender = "user" THEN "user" ELSE "assistant",
         content |-> ctx[i].text]]

\* mutant: lastError keeps the first error instead of the latest
LLMFail_KeepFirst(a, kind) ==
    LET e == Err(kind, a.attempt)
        b == [a EXCEPT !.lastError = IF @ = NoError THEN e ELSE @,
                       !.failures = @ + 1]
    IN  IF a.attempt < EngineMaxRetries
        THEN [b EXCEPT !.pc = "backoff",
                       !.waits = Append(@, BackoffDelay(a.attempt))]
        ELSE [b EXCEPT !.pc = "thrown"]

\* callLLMAPI, the catch block: record the error, then either start the
\* backoff wait or leave the loop and throw lastError
LLMFail(a, kind) ==
    LET e == Err(kind, a.attempt)
        b == [a EXCEPT !.lastError = e, !.failures = @ + 1]
    IN  IF a.attempt < EngineMaxRetries
        THEN [b EXCEPT !.pc = "backoff",
                       !.waits = Append(@, BackoffDelay(a.attempt))]
        ELSE [b EXCEPT !.pc = "thrown"]

\* callLLMAPI, the try block of iteration a.attempt up to its await:
\* the key check, then the dispatch on the provider name; callOpenAI and
\* callClaude run synchronously up to their fetch, which has no abort signal
LLMAttempt(a) ==
    IF ~cfg.hasKey THEN LLMFail(a, "config-key")
    ELSE IF cfg.apiProvider \in {"openai", "claude"}
         THEN [a EXCEPT !.pc = "fetch", !.fetches = @ + 1,
                        !.armed = FALSE, !.keyed = cfg.hasKey]
         ELSE LLMFail(a, "config-provider")

\* callOpenAI / callClaude after the fetch settles; the text is read as
\* data.choices[0]?.message?.content || '' (data.content[0]?.text || ''), so
\* a body with no text at [0] reads as the empty text
LLMResponse(a, out) ==
    IF out.kind \in {"ok", "nocontent"}
    THEN [a EXCEPT !.pc = "returned",
                   !.result = [text |-> Trim(out.body),
                               animationHint |-> SelectAnimationHint(out.body)]]
    ELSE LLMFail(a, out.kind)

\* mutant: the guard does not test isProcessing
ProcessGuardRejects_NoBusyTest == eng.session = NoSession

\* processUserMessage, line 308: the call is turned away
ProcessGuardRejects == eng.session = NoSession \/ eng.isProcessing

\* mutant: the fallback carries the default hint
AIResponse_TalkingFallback(a) ==
    IF a.pc = "returned"
    THEN [text |-> a.result.text,
          animationHint |-> IF a.result.animationHint # ""
                            THEN a.result.animationHint ELSE "talking"]
    ELSE [text |-> FallbackText, animationHint |-> "talking"]

\* generateAIResponse's result once callLLMAPI has returned or thrown
AIResponse(a) ==
    IF a.pc = "returned"
    THEN [text |-> a.result.text,
          animationHint |-> IF a.result.animationHint # ""
                            THEN a.result.animationHint ELSE "talking"]
    ELSE [text |-> FallbackText, animationHint |-> "confused"]

\* processUserMessage from the return of generateAIResponse to its own
\* return: the puppet message is built, added to this.session, emitted and
\* returned; finally isProcessing is reset.  `rest` are the other activations.
SchemaComplete(a, rest) ==
    LET ai == AIResponse(a)
        puppet == NewMessage(clock + 1, "puppet",
                             IF ai.text # <<>> THEN ai.text ELSE NoAnswerText,
                             "text", HintMetadata(ai.animationHint))
        s1 == SessionAddMessage(eng.session, puppet)
        b == [a EXCEPT !.events =
                  Append(@, Ev("messageReceived", puppet, InHistory(s1, puppet),
                               Emit("messageReceived").heard)),
                       !.sids = Append(@, s1.sessionId)]
    IN  /\ clock' = clock + 1
        /\ eng' = [session |-> s1, isProcessing |-> FALSE]
        /\ acts' = rest
        /\ last' = Done("processUserMessage", b,
                        [kind |-> "message", msg |-> puppet], NoError)

\* an activation either stays suspended or runs to the end of the turn
SchemaContinue(a, rest) ==
    IF a.pc \in {"fetch", "backoff"}
    THEN /\ acts' = rest \cup {a}
         /\ UNCHANGED <<eng, clock, last>>
    ELSE SchemaComplete(a, rest)

\* initialize(userId)
SchemaInitialize(userId) ==
    /\ subject = "schema"
    /\ nsessions < MaxSessions
    /\ LET sid == nsessions + 1
           s0 == NewSession(sid, IF userId # "" THEN userId ELSE "anonymous")
           greetingMsg == NewMessage(clock + 1, "puppet", GreetingText,
                                     "text", NoMetadata)
           s1 == SessionAddMessage(s0, greetingMsg)
       IN  /\ nsessions' = sid
           /\ eng' = [eng EXCEPT !.session = s1]
           /\ clock' = clock + 1
           /\ last' = Op("initialize",
                         [kind |-> "init", success |-> TRUE, sessionId |-> sid],
                         << Ev("messageReceived", greetingMsg,
                               InHistory(s1, greetingMsg),
                               Emit("messageReceived").heard),
                            Ev("initialized", Undefined, FALSE,
                               Emit("initialized").heard) >>)
    /\ UNCHANGED <<ui, puppetState, store, probe, subject, cfg, simple, acts, ncalls>>

\* processUserMessage(text) when the guard turns the call away
SchemaProcessRejected(text) ==
    /\ subject = "schema"
    /\ ncalls < MaxCalls
    /\ ProcessGuardRejects
    /\ ncalls' = ncalls + 1
    /\ last' = Done("processUserMessage", NewAct(ncalls + 1, text), Null, NoError)
    /\ UNCHANGED <<ui, puppetState, store, probe, subject, cfg, eng, nsessions, simple, acts, clock>>

\* processUserMessage(text) from the guard to the first await.  With
\* maxRetries = 3 the first iteration of callLLMAPI always ends suspended,
\* at the fetch or at the first backoff timer.
SchemaProcessAccepted(text) ==
    /\ subject = "schema"
    /\ ncalls < MaxCalls
    /\ ~ProcessGuardRejects
    /\ LET userMessage == NewMessage(clock + 1, "user", text, "text", NoMetadata)
           s1 == SessionAddMessage(eng.session, userMessage)
           ctx == GetConversationContext(s1, cfg.maxHistory)
           a0 == [NewAct(ncalls + 1, text) EXCEPT
                    !.events = << Ev("messageReceived", userMessage,
                                     InHistory(s1, userMessage),
                                     Emit("messageReceived").heard) >>,
                    !.context = FormatMessages(ctx),
                    !.sids = <<s1.sessionId>>]
       IN  /\ eng' = [session |-> s1, isProcessing |-> TRUE]
           /\ clock' = clock + 1
           /\ acts' = acts \cup {LLMAttempt([a0 EXCEPT !.attempt = 1])}
    /\ ncalls' = ncalls + 1
    /\ last' = Pending("processUserMessage", ncalls + 1)
    /\ UNCHANGED <<ui, puppetState, store, probe, subject, cfg, nsessions, simple>>

\* the provider answers the pending fetch of a turn
SchemaRespond(a, out) ==
    /\ subject = "schema"
    /\ a.pc = "fetch"
    /\ SchemaContinue(LLMResponse(a, out), acts \ {a})
    /\ UNCHANGED <<ui, puppetState, store, probe, subject, cfg, nsessions, simple, ncalls>>

\* the backoff timer of a turn fires: the next iteration of callLLMAPI
SchemaBackoffElapsed(a) ==
    /\ subject = "schema"
    /\ a.pc = "backoff"
    /\ SchemaContinue(LLMAttempt([a EXCEPT !.attempt = @ + 1]), acts \ {a})
    /\ UNCHANGED <<ui, puppetState, store, probe, subject, cfg, nsessions, simple, ncalls>>

\* endSession()
SchemaEndSession ==
    /\ subject = "schema"
    /\ eng.session # NoSession
    /\ eng' = [eng EXCEPT !.session = SessionEndSession(@)]
    /\ last' = Op("endSession", Undefined,
                  << Ev("sessionEnded", Undefined, FALSE,
                        Emit("sessionEnded").heard) >>)
    /\ UNCHANGED <<ui, puppetState, store, probe, subject, cfg, nsessions, simple, acts, ncalls, clock>>

\* clearHistory()
SchemaClearHistory ==
    /\ subject = "schema"
    /\ eng.session # NoSession
    /\ eng' = [eng EXCEPT !.session.conversationHistory = <<>>]
    /\ last' = Op("clearHistory", Undefined, <<>>)
    /\ UNCHANGED <<ui, puppetState, store, probe, subject, cfg, nsessions, simple, acts, ncalls, clock>>

----------------------------------------------------------------------------
(* ai/conversation.js, the history-array engine *)

BoolData(b) == [kind |-> "bool", value |-> b]

\* sendMessage, lines 46 and 51: the call is turned away
SendGuardRejects(text) == simple.isProcessing \/ Trim(text) = <<>>

\* callOpenAIAPI, the catch block
OpenAIFail(a, kind) ==
    LET e == Err(kind, a.attempt)
        b == [a EXCEPT !.lastError = e, !.failures = @ + 1]
    IN  IF a.attempt < EngineMaxRetries
        THEN [b EXCEPT !.pc = "backoff",
                       !.waits = Append(@, BackoffDelay(a.attempt))]
        ELSE [b EXCEPT !.pc = "thrown"]

\* callOpenAIAPI, the try block of iteration a.attempt up to its fetch, whose
\* body holds this.conversationHistory as it is now and has no abort signal
OpenAIAttempt(a, history) ==
    [a EXCEPT !.pc = "fetch", !.fetches = @ + 1, !.armed = FALSE,
              !.keyed = cfg.hasKey, !.context = history]

\* callOpenAIAPI from its entry: the key check is made before the loop
OpenAIStart(a, history) ==
    IF ~cfg.hasKey
    THEN [a EXCEPT !.pc = "thrown", !.lastError = Err("config-key", 0)]
    ELSE OpenAIAttempt([a EXCEPT !.attempt = 1], history)

\* callOpenAIAPI after the fetch settles; a body with no choices[0] throws
\* 'Invalid API response', one with no message.content a TypeError, both
\* inside the try block
OpenAIResponse(a, out) ==
    IF out.kind = "ok"
    THEN [a EXCEPT !.pc = "returned", !.result = [text |-> out.body]]
    ELSE OpenAIFail(a, IF out.kind = "nocontent" THEN "malformed" ELSE out.kind)

\* the history after the push of the user message and the trim to maxHistory
PushUser(history, text) ==
    LET h == Append(history, [role |-> "user", content |-> text])
    IN  IF Len(h) > cfg.maxHistory THEN SliceLast(h, cfg.maxHistory) ELSE h

\* sendMessage from the return or throw of callOpenAIAPI to its own return.
\* The reply is pushed and then emitted; an error thrown by callOpenAIAPI or
\* by a listener of 'messageReceived' is caught and emitted as 'error'; the
\* finally block resets isProcessing and emits 'processing'.  An error thrown
\* by a listener in the catch or the finally block leaves sendMessage.
SimpleComplete(a, history, rest) ==
    LET ok == a.pc = "returned" /\ a.result.text # <<>>
        mr == EmitUncaught("messageReceived")
        er == EmitUncaught("error")
        pf == EmitUncaught("processing")
        caught == (ok /\ mr.threw) \/ a.pc = "thrown"
        evs == (IF ok
                THEN << Ev("messageReceived",
                           [sender |-> "puppet", text |-> a.result.text,
                            type |-> "text",
                            metadata |-> HintMetadata("talking")],
                           TRUE, mr.heard) >>
                ELSE <<>>)
               \o (IF caught
                   THEN << Ev("error",
                              IF a.pc = "thrown" THEN a.lastError
                              ELSE Err("listener", 0),
                              FALSE, er.heard) >>
                   ELSE <<>>)
               \o << Ev("processing", BoolData(FALSE), FALSE, pf.heard) >>
        escaped == pf.threw \/ (caught /\ er.threw)
        b == [a EXCEPT !.events = @ \o evs]
    IN  /\ simple' = [conversationHistory |->
                          IF ok
                          THEN Append(history, [role |-> "assistant",
                                                content |-> a.result.text])
                          ELSE history,
                      isProcessing |-> FALSE]
        /\ acts' = rest
        /\ last' = Done("sendMessage", b,
                        IF escaped THEN Undefined
                        ELSE IF ok /\ ~mr.threw
                             THEN [kind |-> "text", text |-> a.result.text]
                             ELSE Null,
                        IF escaped THEN Err("listener", 0) ELSE NoError)

SimpleContinue(a, rest) ==
    IF a.pc \in {"fetch", "backoff"}
    THEN /\ acts' = rest \cup {a}
         /\ UNCHANGED <<simple, last>>
    ELSE SimpleComplete(a, simple.conversationHistory, rest)

\* initialize()
SimpleInitialize ==
    /\ subject = "simple"
    /\ simple' = [simple EXCEPT !.conversationHistory = <<>>]
    /\ last' = Op("initialize",
                  [kind |-> "init", success |-> ~EmitUncaught("ready").threw,
                   sessionId |-> 0],
                  << Ev("ready", Undefined, FALSE, EmitUncaught("ready").heard) >>)
    /\ UNCHANGED <<ui, puppetState, store, probe, subject, cfg, eng, nsessions, acts, ncalls, clock>>

\* sendMessage(text) when a guard turns the call away
SimpleSendRejected(text) ==
    /\ subject = "simple"
    /\ ncalls < MaxCalls
    /\ SendGuardRejects(text)
    /\ ncalls' = ncalls + 1
    /\ last' = Done("sendMessage", NewAct(ncalls + 1, text), Null, NoError)
    /\ UNCHANGED <<ui, puppetState, store, probe, subject, cfg, eng, nsessions, simple, acts, clock>>

\* sendMessage(text) from the guards to the first await, or to its return
\* when callOpenAIAPI throws at once.  emit('processing', true) is called
\* before the try block: when a listener throws there, sendMessage is left
\* with isProcessing set and nothing pushed.
SendMessageBody(text) ==
       LET pt == EmitUncaught("processing")
           h == PushUser(simple.conversationHistory, text)
           a0 == [NewAct(ncalls + 1, text) EXCEPT
                    !.events = << Ev("processing", BoolData(TRUE), FALSE,
                                     pt.heard) >>]
           a1 == OpenAIStart(a0, h)
       IN  IF pt.threw
           THEN /\ simple' = [simple EXCEPT !.isProcessing = TRUE]
                /\ acts' = acts
                /\ last' = Done("sendMessage", a0, Undefined, Err("listener", 0))
           ELSE IF a1.pc = "fetch"
           THEN /\ simple' = [conversationHistory |-> h, isProcessing |-> TRUE]
                /\ acts' = acts \cup {a1}
                /\ last' = Pending("sendMessage", ncalls + 1)
           ELSE SimpleComplete(a1, h, acts)

\* sendMessage(text) when the guards let the call pass
SimpleSendAccepted(text) ==
    /\ subject = "simple"
    /\ ncalls < MaxCalls
    /\ ~SendGuardRejects(text)
    /\ SendMessageBody(text)
    /\ ncalls' = ncalls + 1
    /\ UNCHANGED <<ui, puppetState, store, probe, subject, cfg, eng, nsessions, clock>>

\* the provider answers the pending fetch of a send
SimpleRespond(a, out) ==
    /\ subject = "simple"
    /\ a.pc = "fetch"
    /\ SimpleContinue(OpenAIResponse(a, out), acts \ {a})
    /\ UNCHANGED <<ui, puppetState, store, probe, subject, cfg, eng, nsessions, ncalls, clock>>

\* the backoff timer of a send fires: the next iteration of callOpenAIAPI
SimpleBackoffElapsed(a) ==
    /\ subject = "simple"
    /\ a.pc = "backoff"
    /\ SimpleContinue(OpenAIAttempt([a EXCEPT !.attempt = @ + 1],
                                    simple.conversationHistory), acts \ {a})
    /\ UNCHANGED <<ui, puppetState, store, probe, subject, cfg, eng, nsessions, ncalls, clock>>

\* clearHistory()
SimpleClearHistory ==
    /\ subject = "simple"
    /\ simple' = [simple EXCEPT !.conversationHistory = <<>>]
    /\ last' = Op("clearHistory", Undefined,
                  << Ev("history-cleared", Undefined, FALSE,
                        EmitUncaught("history-cleared").heard) >>)
    /\ UNCHANGED <<ui, puppetState, store, probe, subject, cfg, eng, nsessions, acts, ncalls, clock>>

----------------------------------------------------------------------------
(* services/apiClient.js *)

\* mutant: the comparison admits one attempt more
RetryFail_OneMore(a, kind) ==
    LET e == Err(kind, a.attempt)
        b == [a EXCEPT !.lastError = e, !.failures = @ + 1]
    IN  IF a.attempt <= cfg.retries
        THEN [b EXCEPT !.pc = "backoff",
                       !.waits = Append(@, BackoffDelay(a.attempt))]
        ELSE [b EXCEPT !.pc = "thrown"]

\* withRetry, the catch block
RetryFail(a, kind) ==
    LET e == Err(kind, a.attempt)
        b == [a EXCEPT !.lastError = e, !.failures = @ + 1]
    IN  IF a.attempt < cfg.retries
        THEN [b EXCEPT !.pc = "backoff",
                       !.waits = Append(@, BackoffDelay(a.attempt))]
        ELSE [b EXCEPT !.pc = "thrown"]

\* makeRequest up to its fetch: the key is sent as configured, and the
\* request carries AbortSignal.timeout(this.config.timeout).  withRetry has
\* no lastError variable: the caught error is bound in the catch block only.
MakeRequest(a) ==
    [a EXCEPT !.pc = "fetch", !.fetches = @ + 1, !.armed = TRUE,
              !.keyed = cfg.hasKey, !.lastError = NoError]

\* mutant: the attempt counter goes on from the calls made before
ClientDispatch_SharedBudget(a) ==
    IF cfg.apiProvider \in {"openai", "claude"}
    THEN MakeRequest([a EXCEPT !.attempt = a.cid])
    ELSE [a EXCEPT !.pc = "thrown", !.lastError = Err("config-provider", 0)]

\* APIClient.sendMessage: the dispatch on the provider name; withRetry(fn)
\* starts with its parameter attempt at the default 1
ClientDispatch(a) ==
    IF cfg.apiProvider \in {"openai", "claude"}
    THEN MakeRequest([a EXCEPT !.attempt = 1])
    ELSE [a EXCEPT !.pc = "thrown", !.lastError = Err("config-provider", 0)]

\* makeRequest after the fetch settles; the text is read with ?. and || ''
RequestResponse(a, out) ==
    IF out.kind \in {"ok", "nocontent"}
    THEN [a EXCEPT !.pc = "returned",
                   !.result = [success |-> TRUE, text |-> Trim(out.body),
                               provider |-> cfg.apiProvider]]
    ELSE RetryFail(a, out.kind)

\* APIClient.sendMessage returns the result or rethrows the error
ClientContinue(a, rest) ==
    IF a.pc \in {"fetch", "backoff"}
    THEN /\ acts' = rest \cup {a}
         /\ UNCHANGED last
    ELSE /\ acts' = rest
         /\ last' = Done("client.sendMessage", a,
                         IF a.pc = "returned"
                         THEN [kind |-> "result", value |-> a.result] ELSE Null,
                         IF a.pc = "thrown" THEN a.lastError ELSE NoError)

\* apiClient.sendMessage(messages)
ClientSendMessage ==
    /\ subject = "client"
    /\ ncalls < MaxCalls
    /\ ncalls' = ncalls + 1
    /\ ClientContinue(ClientDispatch(NewAct(ncalls + 1, <<>>)), acts)
    /\ UNCHANGED <<ui, puppetState, store, probe, subject, cfg, eng, nsessions, simple, clock>>

\* the provider answers a pending fetch
ClientRespond(a, out) ==
    /\ subject = "client"
    /\ a.pc = "fetch"
    /\ ClientContinue(RequestResponse(a, out), acts \ {a})
    /\ UNCHANGED <<ui, puppetState, store, probe, subject, cfg, eng, nsessions, simple, ncalls, clock>>

\* the abort signal of a pending fetch fires after config.timeout
ClientTimeout(a) ==
    /\ subject = "client"
    /\ a.pc = "fetch" /\ a.armed
    /\ ClientContinue(RetryFail(a, "timeout"), acts \ {a})
    /\ UNCHANGED <<ui, puppetState, store, probe, subject, cfg, eng, nsessions, simple, ncalls, clock>>

\* the backoff timer fires: withRetry(fn, attempt + 1)
ClientBackoffElapsed(a) ==
    /\ subject = "client"
    /\ a.pc = "backoff"
    /\ ClientContinue(MakeRequest([a EXCEPT !.attempt = @ + 1]), acts \ {a})
    /\ UNCHANGED <<ui, puppetState, store, probe, subject, cfg, eng, nsessions, simple, ncalls, clock>>

----------------------------------------------------------------------------
(* main.js, handleUserMessage, with ui/interface.js *)

\* UIManager.setInputEnabled(enabled): messageInput.disabled and
\* sendButton.disabled; the voice button is not touched
SetInputEnabled(enabled) == [inputEnabled |-> enabled]

\* the texts the UI emits: both routes test text.trim() before they emit
\* 'sendMessage' (send button, Enter key) or 'voiceInput' (voice button)
UITexts == { t \in UserTexts : Trim(t) # <<>> }

\* the routes to handleUserMessage; a disabled input field or send button
\* delivers no event, the voice button always does
Routes == {"typed", "voice"}

\* handleUserMessage(text) up to the await of sendMessage, and to its end
\* when sendMessage returns null at once: setInputEnabled(false), the call,
\* and in the finally block setInputEnabled(true)
AppHandleUserMessage(text, route) ==
    /\ subject = "app"
    /\ ncalls < MaxCalls
    /\ route = "typed" => ui.inputEnabled
    /\ IF SendGuardRejects(text)
       THEN /\ last' = Done("sendMessage", NewAct(ncalls + 1, text), Null, NoError)
            /\ UNCHANGED <<simple, acts>>
       ELSE SendMessageBody(text)
    /\ ui' = SetInputEnabled(last'.ret.kind # "pending")
    /\ ncalls' = ncalls + 1
    /\ UNCHANGED <<puppetState, store, probe, subject, cfg, eng, nsessions, clock>>

\* the provider answers the pending fetch; when sendMessage returns,
\* handleUserMessage resumes and its finally block enables the input
AppRespond(a, out) ==
    /\ subject = "app"
    /\ a.pc = "fetch"
    /\ SimpleContinue(OpenAIResponse(a, out), acts \ {a})
    /\ ui' = IF OpenAIResponse(a, out).pc \in {"fetch", "backoff"}
             THEN ui ELSE SetInputEnabled(TRUE)
    /\ UNCHANGED <<puppetState, store, probe, subject, cfg, eng, nsessions, ncalls, clock>>

\* the backoff timer of the pending send fires
AppBackoffElapsed(a) ==
    /\ subject = "app"
    /\ a.pc = "backoff"
    /\ SimpleContinue(OpenAIAttempt([a EXCEPT !.attempt = @ + 1],
                                    simple.conversationHistory), acts \ {a})
    /\ UNCHANGED <<ui, puppetState, store, probe, subject, cfg, eng, nsessions, ncalls, clock>>

----------------------------------------------------------------------------
(* Direct calls of the schema classes and of selectAnimationHint *)

\* The record of a direct call: the function, its argument, the history of
\* the Session before the call, the value returned and the error thrown
Probe(fn, arg, before, ret, thrown) ==
    [fn |-> fn, arg |-> arg, before |-> before, ret |-> ret, thrown |-> thrown]

NoProbe == Probe("none", Undefined, <<>>, Undefined, NoError)

\* a number, a text, a string or a list as an argument or a result
Val(kind, v) == [kind |-> kind, value |-> v]

\* argument objects handed to new Message(...): two that are well formed,
\* then a wrong sender, a wrong type, no text, a timestamp that is not a
\* number (-1) and an empty id (0)
MessageArgs ==
    { [id |-> 7, sender |-> "user", text |-> <<"x">>, timestamp |-> 7,
       type |-> "text"],
      [sender |-> "puppet", text |-> <<"x", "!">>, type |-> "voice"],
      [sender |-> "robot", text |-> <<"x">>],
      [text |-> <<"x">>, type |-> "video"],
      [sender |-> "user"],
      [text |-> <<"x">>, timestamp |-> -1],
      [id |-> 0, text |-> <<"x">>] }

\* what a caller may hand to Session.addMessage
MessageInputs ==
    { MessageCtor(clock + 1, f) : f \in MessageArgs } \cup {Null, Undefined}

\* new Message(f)
CallNewMessage(f) ==
    /\ subject = "session"
    /\ probe' = Probe("Message", f, eng.session.conversationHistory,
                      MessageCtor(clock + 1, f), NoError)
    /\ UNCHANGED <<ui, puppetState, store, subject, cfg, eng, nsessions, simple, acts, ncalls, clock, last>>

\* session.addMessage(msg)
CallAddMessage(msg) ==
    /\ subject = "session"
    /\ Len(eng.session.conversationHistory) < MaxUnitHistory
    /\ IF ValidateThrows(msg)
       THEN /\ probe' = Probe("addMessage", msg, eng.session.conversationHistory,
                              Undefined, Err("type-error", 0))
            /\ eng' = eng
       ELSE /\ probe' = Probe("addMessage", msg, eng.session.conversationHistory,
                              BoolData(SessionAddMessageResult(eng.session, msg)),
                              NoError)
            /\ eng' = [eng EXCEPT !.session = SessionAddMessage(@, msg)]
    /\ UNCHANGED <<ui, puppetState, store, subject, cfg, nsessions, simple, acts, ncalls, clock, last>>

\* session.getConversationContext(limit)
CallGetConversationContext(limit) ==
    /\ subject = "session"
    /\ probe' = Probe("getConversationContext", Val("number", limit),
                      eng.session.conversationHistory,
                      Val("list", GetConversationContext(eng.session, limit)),
                      NoError)
    /\ UNCHANGED <<ui, puppetState, store, subject, cfg, eng, nsessions, simple, acts, ncalls, clock, last>>

\* new Message(msg.toJSON()) for a Message msg built before; the rebuilt
\* object is a later construction, with later defaults for id and timestamp
CallToJSON(f) ==
    /\ subject = "session"
    /\ LET msg == MessageCtor(clock + 1, f)
       IN  probe' = Probe("toJSON", msg, eng.session.conversationHistory,
                          MessageCtor(clock + 2, ToJSON(msg)), NoError)
    /\ UNCHANGED <<ui, puppetState, store, subject, cfg, eng, nsessions, simple, acts, ncalls, clock, last>>

\* session.endSession(); the argument recorded is the flag before the call
CallEndSession ==
    /\ subject = "session"
    /\ probe' = Probe("endSession", BoolData(eng.session.active),
                      eng.session.conversationHistory, Undefined, NoError)
    /\ eng' = [eng EXCEPT !.session = SessionEndSession(@)]
    /\ UNCHANGED <<ui, puppetState, store, subject, cfg, nsessions, simple, acts, ncalls, clock, last>>

\* the names handed to setProvider: the two known ones, another spelling of
\* one of them, an unknown one and the empty string
ProviderNames == {"openai", "claude", "OpenAI", "other", ""}

\* mutant: every non-empty name is accepted
SetProviderAccepts_AnyName(provider) == provider # ""

\* setProvider: ['openai', 'claude'].includes(provider)
SetProviderAccepts(provider) == provider \in {"openai", "claude"}

\* apiClient.setProvider(provider); the argument recorded holds the name and
\* the provider configured before the call
CallSetProvider(provider) ==
    /\ subject = "provider"
    /\ probe' = Probe("setProvider",
                      Val("provider", [name |-> provider, was |-> cfg.apiProvider]),
                      <<>>, BoolData(SetProviderAccepts(provider)), NoError)
    /\ cfg' = IF SetProviderAccepts(provider)
              THEN [cfg EXCEPT !.apiProvider = provider] ELSE cfg
    /\ UNCHANGED <<ui, puppetState, store, subject, eng, nsessions, simple, acts, ncalls, clock, last>>

\* engine.selectAnimationHint(text)
CallSelectAnimationHint(text) ==
    /\ subject = "hint"
    /\ probe' = Probe("selectAnimationHint", Val("text", text), <<>>,
                      Val("string", SelectAnimationHint(text)), NoError)
    /\ UNCHANGED <<ui, puppetState, store, subject, cfg, eng, nsessions, simple, acts, ncalls, clock, last>>

----------------------------------------------------------------------------
(* utils/state.js, the StateManager *)

\* { ...state, ...updates }: the keys of both, updates winning
Spread(state, updates) ==
    [k \in DOMAIN state \cup DOMAIN updates |->
        IF k \in DOMAIN updates THEN updates[k] ELSE state[k]]

\* new StateManager(initialState)
InitialState == [a |-> 0, b |-> 0]

\* the updates handed to setState: one key, a new key with an old one, none
Updates == { [a |-> 1], [b |-> 1, c |-> 1], [k \in {} |-> 0] }

\* the callbacks handed to subscribe; "boom" throws when it is called
Callbacks == {"f", "boom"}

\* The latest call on the StateManager: for setState the updates, the state
\* and the length of the history before it, and the subscriptions whose
\* callback notifySubscribers invoked, in order
StoreOp(name, updates, before, histLen, notified) ==
    [name |-> name, updates |-> updates, before |-> before,
     histLen |-> histLen, notified |-> notified]

\* this.subscribers holds the callbacks; each entry also carries the number
\* of the subscribe call that pushed it.  handles[i] is the callback the
\* closure returned by the i-th subscribe call has captured, and `called`
\* the closures that were called.
InitialStore ==
    [state |-> InitialState,
     subscribers |-> <<>>,
     history |-> << [state |-> InitialState, changes |-> [k \in {} |-> 0]] >>,
     handles |-> <<>>,
     called |-> {},
     nsets |-> 0,
     op |-> StoreOp("constructor", [k \in {} |-> 0], InitialState, 0, <<>>)]

\* notifySubscribers: forEach with a try/catch around each callback, so
\* every entry of this.subscribers is invoked, throwing or not
NotifySubscribers(subscribers) ==
    [j \in 1..Len(subscribers) |-> subscribers[j].id]

\* the closure subscribe returns: this.subscribers.filter(sub => sub !== callback)
Unsubscribe(subscribers, callback) ==
    LET Other(e) == e.cb # callback
    IN  SelectSeq(subscribers, Other)

\* stateManager.setState(updates)
CallSetState(updates) ==
    /\ subject = "state"
    /\ store.nsets < MaxSetStates
    /\ LET newState == Spread(store.state, updates)
       IN  store' = [store EXCEPT
                        !.state = newState,
                        !.history = Append(@, [state |-> newState,
                                               changes |-> updates]),
                        !.nsets = @ + 1,
                        !.op = StoreOp("setState", updates, store.state,
                                       Len(store.history),
                                       NotifySubscribers(store.subscribers))]
    /\ UNCHANGED <<ui, puppetState, probe, subject, cfg, eng, nsessions, simple, acts, ncalls, clock, last>>

\* stateManager.subscribe(callback)
CallSubscribe(callback) ==
    /\ subject = "state"
    /\ Len(store.handles) < MaxSubscribes
    /\ store' = [store EXCEPT
                    !.subscribers = Append(@, [id |-> Len(store.handles) + 1,
                                               cb |-> callback]),
                    !.handles = Append(@, callback),
                    !.op = StoreOp("subscribe", [k \in {} |-> 0], store.state,
                                   Len(store.history), <<>>)]
    /\ UNCHANGED <<ui, puppetState, probe, subject, cfg, eng, nsessions, simple, acts, ncalls, clock, last>>

\* the closure returned by the i-th subscribe call is called
CallUnsubscribe(i) ==
    /\ subject = "state"
    /\ i \in 1..Len(store.handles)
    /\ store' = [store EXCEPT
                    !.subscribers = Unsubscribe(@, store.handles[i]),
                    !.called = @ \cup {i},
                    !.op = StoreOp("unsubscribe", [k \in {} |-> 0], store.state,
                                   Len(store.history), <<>>)]
    /\ UNCHANGED <<ui, puppetState, probe, subject, cfg, eng, nsessions, simple, acts, ncalls, clock, last>>

----------------------------------------------------------------------------
(* schema/puppet.js, the Puppet's animation states *)

\* the constructor's default animationStates: every state false
DefaultAnimationStates ==
    [idle |-> FALSE, greeting |-> FALSE, talking |-> FALSE,
     listening |-> FALSE, happy |-> FALSE, confused |-> FALSE]

\* names every object inherits from Object.prototype; the model keeps one
InheritedNames == {"toString"}

\* the names handed to setAnimationState: the six states, a name no object
\* has, and an inherited name
AnimationNames == DOMAIN DefaultAnimationStates \cup {"dancing"} \cup InheritedNames

\* animationName in this.animationStates: own and inherited properties
HasProperty(states, animationName) ==
    animationName \in DOMAIN states \cup InheritedNames

\* the body of setAnimationState: every own key false, then the target
SetAnimationState(states, animationName, active) ==
    IF HasProperty(states, animationName)
    THEN [k \in DOMAIN states \cup {animationName} |->
             IF k = animationName THEN active ELSE FALSE]
    ELSE states

\* new Puppet(): the animation states, and the latest setAnimationState call
\* with the states it found
InitialPuppet ==
    [animationStates |-> DefaultAnimationStates,
     call |-> [name |-> "constructor", active |-> FALSE],
     before |-> DefaultAnimationStates]

\* puppet.setAnimationState(animationName, active)
CallSetAnimationState(animationName, active) ==
    /\ subject = "puppet"
    /\ puppetState' =
           [animationStates |-> SetAnimationState(puppetState.animationStates,
                                                  animationName, active),
            call |-> [name |-> animationName, active |-> active],
            before |-> puppetState.animationStates]
    /\ UNCHANGED <<ui, store, probe, subject, cfg, eng, nsessions, simple, acts, ncalls, clock, last>>

----------------------------------------------------------------------------
(* Initial states and the next-state relation *)

\* the configuration object and the environment of the subject; userId is
\* the id the application passes to initialize ('' when it passes none)
Config(k, p, h, u, t) ==
    [hasKey |-> k, apiProvider |-> p, maxHistory |-> h,
     retries |-> EngineMaxRetries, userId |-> u, throwOn |-> t]

Configs(sub) ==
    IF sub = "schema"
    THEN { Config(TRUE, "openai", SmallCap, "u1", "none"),
           Config(TRUE, "claude", DefaultMaxHistory, "", "messageReceived"),
           Config(FALSE, "openai", DefaultMaxHistory, "u1", "none"),
           Config(TRUE, "other", DefaultMaxHistory, "", "none") }
    ELSE IF sub = "simple"
    THEN { Config(TRUE, "openai", SmallCap, "", "none"),
           Config(TRUE, "openai", DefaultMaxHistory, "", "none"),
           Config(FALSE, "openai", DefaultMaxHistory, "", "none"),
           Config(TRUE, "openai", DefaultMaxHistory, "", "processing"),
           Config(TRUE, "openai", DefaultMaxHistory, "", "messageReceived"),
           Config(FALSE, "openai", DefaultMaxHistory, "", "error") }
    ELSE IF sub \in {"session", "hint", "puppet", "state"}
    THEN { Config(TRUE, "openai", DefaultMaxHistory, "", "none") }
    ELSE IF sub = "provider"
    THEN { Config(TRUE, p, DefaultMaxHistory, "", "none") :
               p \in {"openai", "claude", "other"} }
    ELSE IF sub = "app"
    THEN { Config(TRUE, "openai", DefaultMaxHistory, "", "none"),
           Config(FALSE, "openai", DefaultMaxHistory, "", "none") }
    ELSE [hasKey : BOOLEAN, apiProvider : {"openai", "claude", "other"},
          maxHistory : {DefaultMaxHistory},
          retries : (1..MaxRetriesCfg) \cup {DefaultRetries},
          userId : {""}, throwOn : {"none"}]

\* Under "session" the object called directly is new Session({userId}).
Init ==
    /\ subject \in {"schema", "simple", "client", "session", "hint",
                    "app", "provider", "puppet", "state"}
    /\ cfg \in Configs(subject)
    /\ eng = [session |-> IF subject = "session"
                          THEN NewSession(1, cfg.userId) ELSE NoSession,
              isProcessing |-> FALSE]
    /\ nsessions = IF subject = "session" THEN 1 ELSE 0
    /\ simple = [conversationHistory |-> <<>>, isProcessing |-> FALSE]
    /\ acts = {}
    /\ ncalls = 0
    /\ clock = 0
    /\ last = Op("constructor", Undefined, <<>>)
    /\ probe = NoProbe
    /\ ui = SetInputEnabled(TRUE)
    /\ puppetState = InitialPuppet
    /\ store = InitialStore

Next ==
    \/ SchemaInitialize(cfg.userId)
    \/ \E t \in UserTexts : SchemaProcessRejected(t)
    \/ \E t \in UserTexts : SchemaProcessAccepted(t)
    \/ \E a \in acts, out \in Outcomes : SchemaRespond(a, out)
    \/ \E a \in acts : SchemaBackoffElapsed(a)
    \/ SchemaEndSession
    \/ SchemaClearHistory
    \/ SimpleInitialize
    \/ \E t \in UserTexts : SimpleSendRejected(t)
    \/ \E t \in UserTexts : SimpleSendAccepted(t)
    \/ \E a \in acts, out \in Outcomes : SimpleRespond(a, out)
    \/ \E a \in acts : SimpleBackoffElapsed(a)
    \/ SimpleClearHistory
    \/ ClientSendMessage
    \/ \E a \in acts, out \in Outcomes : ClientRespond(a, out)
    \/ \E a \in acts : ClientTimeout(a)
    \/ \E a \in acts : ClientBackoffElapsed(a)
    \/ \E t \in UITexts, route \in Routes : AppHandleUserMessage(t, route)
    \/ \E a \in acts, out \in Outcomes : AppRespond(a, out)
    \/ \E a \in acts : AppBackoffElapsed(a)
    \/ \E f \in MessageArgs : CallNewMessage(f)
    \/ \E msg \in MessageInputs : CallAddMessage(msg)
    \/ \E limit \in 0..(MaxUnitHistory + 1) : CallGetConversationContext(limit)
    \/ \E f \in MessageArgs : CallToJSON(f)
    \/ CallEndSession
    \/ \E name \in ProviderNames : CallSetProvider(name)
    \/ \E name \in AnimationNames, active \in BOOLEAN :
           CallSetAnimationState(name, active)
    \/ \E updates \in Updates : CallSetState(updates)
    \/ \E callback \in Callbacks : CallSubscribe(callback)
    \/ \E i \in 1..MaxSubscribes : CallUnsubscribe(i)
    \/ \E text \in TextsUpTo(MaxTextLen) : CallSelectAnimationHint(text)

Spec == Init /\ [][Next]_vars

\* The event loop runs every task that is ready: an expired backoff timer
\* and a fired abort signal are handled.  Nothing obliges the provider to
\* answer a request, nor the user to make calls.
FairSpec ==
    /\ Spec
    /\ WF_vars(\E a \in acts : SchemaBackoffElapsed(a))
    /\ WF_vars(\E a \in acts : SimpleBackoffElapsed(a))
    /\ WF_vars(\E a \in acts : AppBackoffElapsed(a))
    /\ WF_vars(\E a \in acts : ClientTimeout(a))
    /\ WF_vars(\E a \in acts : ClientBackoffElapsed(a))

----------------------------------------------------------------------------
(* Properties *)

\* the flag an engine tests before it accepts a turn
Processing ==
    \/ subject = "schema" /\ eng.isProcessing
    \/ subject = "simple" /\ simple.isProcessing

\* the attempts a retried call of the subject may make
MaxAttempts == IF subject = "client" THEN cfg.retries ELSE EngineMaxRetries

ExpectedWaits(k) == [i \in 1..k |-> Pow2(i - 1) * BaseDelay]

RECURSIVE SumOfWaits(_)
SumOfWaits(k) ==
    IF k = 0 THEN 0 ELSE Pow2(k - 1) * BaseDelay + SumOfWaits(k - 1)

ConfigKinds == {"config-key", "config-provider"}

\* an engine has at most one suspended call, and only while Processing
OneSuspendedCall ==
    subject \in {"schema", "simple"} =>
        (Cardinality(acts) <= 1 /\ (acts # {} => Processing))

\* a call made while Processing is turned away and changes nothing
BusyCallRejected ==
    (Processing /\ ncalls' = ncalls + 1) =>
        (/\ last'.cid = ncalls'
         /\ last'.ret = Null
         /\ last'.fetches = 0
         /\ last'.events = <<>>
         /\ acts' = acts
         /\ eng' = eng
         /\ simple' = simple)

\* C1: at most one provider call of an engine is outstanding at any time, and
\* a processUserMessage / sendMessage call made while the engine is
\* Processing returns null, issues no fetch, emits nothing and changes
\* neither the history nor the engine.
C1_OneInFlight == []OneSuspendedCall /\ [][BusyCallRejected]_vars

\* a call was turned away while a turn was awaiting the provider
C1_Witness ==
    /\ subject = "schema" /\ eng.isProcessing
    /\ \E a \in acts : a.pc = "fetch" /\ a.cid < ncalls
    /\ last.op = "processUserMessage" /\ last.cid = ncalls /\ last.ret = Null

\* C2: in no step taken while a Session is inactive does its history grow.
C2_NoAppendAfterEnd ==
    [][ (/\ eng.session # NoSession
         /\ ~eng.session.active
         /\ eng'.session.sessionId = eng.session.sessionId) =>
        Len(eng'.session.conversationHistory)
            <= Len(eng.session.conversationHistory) ]_vars

\* C3: after endSession every processUserMessage call returns null, starts
\* no provider call and leaves the engine and its history unchanged.
C3_EndedIsTerminal ==
    [][ (/\ subject = "schema"
         /\ eng.session # NoSession
         /\ ~eng.session.active
         /\ ncalls' = ncalls + 1) =>
        (last'.ret = Null /\ acts' = acts /\ eng' = eng) ]_vars

\* C4: when callLLMAPI throws after its last attempt, processUserMessage
\* throws nothing: it appends a puppet message with hint 'confused' to the
\* history, returns it, and the engine accepts turns again.
C4_FallbackOnExhaustion ==
    [][ (/\ subject = "schema"
         /\ last' # last
         /\ last'.op = "processUserMessage"
         /\ last'.wrapped.status = "thrown") =>
        (/\ last'.thrown = NoError
         /\ last'.ret.kind = "message"
         /\ last'.ret.msg.sender = "puppet"
         /\ HintOf(last'.ret.msg) = "confused"
         /\ eng'.session.conversationHistory =
                Append(eng.session.conversationHistory, last'.ret.msg)
         /\ ~ProcessGuardRejects') ]_vars

\* a turn ended with the fallback after three failed provider attempts
C4_Witness ==
    /\ subject = "schema"
    /\ last.op = "processUserMessage"
    /\ last.wrapped.status = "thrown"
    /\ last.wrapped.error.kind = "http"
    /\ last.fetches = EngineMaxRetries
    /\ last.ret.kind = "message"
    /\ HintOf(last.ret.msg) = "confused"
    /\ ~eng.isProcessing

\* C5: attempt 1 runs with no wait and the wait before attempt n+1 is
\* 2^(n-1) * 1000 ms; a call that fails k times and then succeeds has waited
\* the sum of 2^(i-1) * 1000 for i = 1..k and returns the success value.
C5_BackoffSchedule ==
    /\ \A a \in acts :
          /\ (a.pc = "fetch" => a.waits = ExpectedWaits(a.attempt - 1))
          /\ (a.pc = "backoff" => a.waits = ExpectedWaits(a.attempt))
    /\ (last.wrapped.status = "returned" =>
          /\ last.waits = ExpectedWaits(last.failures)
          /\ SumSeq(last.waits) = SumOfWaits(last.failures)
          /\ last.wrapped.value # Null
          /\ (subject = "client" =>
                last.ret = [kind |-> "result", value |-> last.wrapped.value]))
    /\ ((last.wrapped.status = "thrown" /\ last.attempts > 0) =>
          last.waits = ExpectedWaits(last.attempts - 1))

\* a call succeeded at its third attempt after waiting 1000 and 2000 ms
C5_Witness ==
    /\ last.wrapped.status = "returned"
    /\ last.failures = 2
    /\ last.waits = <<1000, 2000>>
    /\ SumSeq(last.waits) = 3000

\* C6: when every attempt of a retried call fails, the wrapper throws the
\* error raised by the last attempt (errors carry the number of the attempt
\* that raised them), and the client's caller receives that error.
C6_LastErrorSurfaced ==
    (last.wrapped.status = "thrown" /\ last.attempts > 0) =>
        /\ last.attempts = MaxAttempts
        /\ last.failures = MaxAttempts
        /\ last.wrapped.error.kind \in {"http", "malformed", "timeout"} \cup ConfigKinds
        /\ last.wrapped.error.attempt = MaxAttempts
        /\ (subject = "client" =>
              (last.thrown = last.wrapped.error /\ last.ret = Null))

\* three attempts failed and the error of the third was thrown
C6_Witness ==
    /\ last.wrapped.status = "thrown"
    /\ last.attempts = 3
    /\ last.failures = 3
    /\ last.wrapped.error = Err("malformed", 3)

\* the progress measure of an activation: it grows with every step
Rank(a) == 2 * a.attempt + (IF a.pc = "backoff" THEN 1 ELSE 0)

\* the attempts of every suspended and completed call are within the bound,
\* and a success is the last attempt of its call
RetryWithinBound ==
    /\ \A a \in acts :
          /\ a.attempt \in 1..MaxAttempts
          /\ a.fetches <= a.attempt
          /\ a.failures = IF a.pc = "fetch" THEN a.attempt - 1 ELSE a.attempt
    /\ last.attempts <= MaxAttempts
    /\ last.fetches <= last.attempts
    /\ (last.wrapped.status = "returned" =>
           last.attempts = last.failures + 1)

\* every step of a suspended call increases its progress measure
RetryAdvances ==
    \A a \in acts : \A b \in acts' :
        (b.cid = a.cid /\ b # a) => Rank(b) > Rank(a)

\* C7: a retried call invokes the operation at most the maximum number of
\* attempts, never after a success, and every step of the call moves it
\* strictly towards that bound.
C7_BoundedRetry == []RetryWithinBound /\ [][RetryAdvances]_vars

\* a call used all its attempts, and another stopped at its first success
C7_Witness ==
    /\ last.wrapped.status = "thrown"
    /\ last.attempts = MaxAttempts
    /\ last.fetches = MaxAttempts
    /\ MaxAttempts = DefaultRetries

\* C8: no backoff wait follows a configuration error, and a call that ends
\* with one has made at most one attempt.
C8_ConfigErrorsNotRetried ==
    /\ \A a \in acts : (a.lastError.kind \in ConfigKinds => a.waits = <<>>)
    /\ (last.wrapped.error.kind \in ConfigKinds =>
          (last.attempts <= 1 /\ last.waits = <<>>))

\* C9: every fetch issued carries an API key and goes to a known provider.
C9_NoFetchWithoutKey ==
    \A a \in acts :
        a.pc = "fetch" =>
            (a.keyed /\ cfg.apiProvider \in {"openai", "claude"})

\* C10: every pending provider attempt of an engine is cancelled by a
\* timeout, so an engine that is Processing is eventually not Processing,
\* also when the provider never answers.
C10_ProcessingEnds ==
    (subject = "schema" /\ eng.isProcessing) ~> ~eng.isProcessing

----------------------------------------------------------------------------

\* a processUserMessage / sendMessage call with the text t is made
TurnCall(t) ==
    \/ SchemaProcessAccepted(t) \/ SchemaProcessRejected(t)
    \/ SimpleSendAccepted(t) \/ SimpleSendRejected(t)

\* C11: a processUserMessage / sendMessage call whose text is empty after
\* trimming returns null, starts no provider call, emits no event and
\* leaves the engine and its history unchanged.
C11_BlankTextRejected ==
    [][ (\E t \in UserTexts : Trim(t) = <<>> /\ TurnCall(t)) =>
        (/\ last'.ret = Null
         /\ last'.fetches = 0
         /\ last'.events = <<>>
         /\ acts' = acts
         /\ eng' = eng
         /\ simple' = simple) ]_vars

\* C12: the stored history of an engine never holds more messages than the
\* configured cap.
C12_HistoryCap ==
    /\ (subject = "schema" /\ eng.session # NoSession) =>
           Len(eng.session.conversationHistory) <= cfg.maxHistory
    /\ subject = "simple" =>
           Len(simple.conversationHistory) <= cfg.maxHistory

\* the latest call was an accepted turn and it has ended (a call that is
\* turned away emits nothing, an accepted one emits at least one event)
AcceptedTurnDone ==
    /\ subject \in {"schema", "simple"}
    /\ last.op \in {"processUserMessage", "sendMessage"}
    /\ last.ret # [kind |-> "pending"]
    /\ last.events # <<>>

IsMessageReceived(e) == e.event = "messageReceived"

\* C13: an accepted turn that has ended emitted messageReceived exactly
\* twice, for the user message and then for the puppet message, each of
\* them in the history when it was emitted, and the engine is not Processing.
C13_TwoMessagesPerTurn ==
    AcceptedTurnDone =>
        LET mr == SelectSeq(last.events, IsMessageReceived)
        IN  /\ Len(mr) = 2
            /\ mr[1].data.sender = "user"
            /\ mr[2].data.sender = "puppet"
            /\ mr[1].stored
            /\ mr[2].stored
            /\ ~Processing

\* C14: a turn whose provider call ended by throwing emitted an 'error'
\* event and a messageReceived event carrying a puppet reply, and threw
\* nothing to its caller.
C14_ErrorEventAndReply ==
    (AcceptedTurnDone /\ last.wrapped.status = "thrown") =>
        /\ \E i \in 1..Len(last.events) : last.events[i].event = "error"
        /\ \E i \in 1..Len(last.events) :
               /\ last.events[i].event = "messageReceived"
               /\ last.events[i].data.sender = "puppet"
        /\ last.thrown = NoError

\* the text holds one of the characters cs
HasChar(text, cs) == \E i \in DOMAIN text : text[i] \in cs

\* C15: selectAnimationHint returns 'confused' exactly for the texts with a
\* question mark (ASCII or full-width), 'happy' exactly for the texts with
\* an exclamation mark and no question mark, and 'talking' for the others.
C15_HintFirstMatch ==
    probe.fn = "selectAnimationHint" =>
        LET q == HasChar(probe.arg.value, {"?", "FWQ"})
            e == HasChar(probe.arg.value, {"!", "FWE"})
            hint == probe.ret.value
        IN  /\ hint \in {"confused", "happy", "talking"}
            /\ (hint = "confused") <=> q
            /\ (hint = "happy") <=> (~q /\ e)
            /\ (hint = "talking") <=> (~q /\ ~e)

\* a text with an exclamation mark before a question mark gave 'confused'
C15_Witness ==
    /\ probe.fn = "selectAnimationHint"
    /\ Len(probe.arg.value) >= 2
    /\ probe.arg.value[1] \in {"!", "FWE"}
    /\ HasChar(probe.arg.value, {"?", "FWQ"})
    /\ probe.ret.value = "confused"

\* C16: initialize leaves a history of one message; accepting a turn adds
\* the user message; a turn the provider answers adds one puppet message
\* whose text is the trimmed reply and whose hint is derived from the reply.
C16_EndToEnd ==
    [][ /\ SchemaInitialize(cfg.userId) =>
               Len(eng'.session.conversationHistory) = 1
        /\ \A t \in UserTexts :
               SchemaProcessAccepted(t) =>
                   LET h == eng'.session.conversationHistory
                   IN  /\ Len(h) = Len(eng.session.conversationHistory) + 1
                       /\ h[Len(h)].sender = "user"
                       /\ h[Len(h)].text = t
        /\ \A a \in acts, out \in Outcomes :
               (out.kind = "ok" /\ SchemaRespond(a, out)) =>
                   LET h == eng'.session.conversationHistory
                   IN  /\ Len(h) = Len(eng.session.conversationHistory) + 1
                       /\ h[Len(h)].sender = "puppet"
                       /\ h[Len(h)].text = Trim(out.body)
                       /\ HintOf(h[Len(h)]) = SelectAnimationHint(out.body)
      ]_vars

Min(a, b) == IF a <= b THEN a ELSE b

\* C17: getConversationContext(limit) returns the last min(limit, length)
\* messages of the history in their order, and leaves the history as it was.
C17_ContextWindow ==
    probe.fn = "getConversationContext" =>
        LET h == probe.before
            limit == probe.arg.value
            n == Min(limit, Len(h))
        IN  /\ Len(probe.ret.value) <= limit
            /\ probe.ret.value = SubSeq(h, Len(h) - n + 1, Len(h))
            /\ eng.session.conversationHistory = h
            /\ probe.thrown = NoError

\* the Message invariant of the data model
WellFormedMessage(m) ==
    /\ m \notin {Null, Undefined}
    /\ m.id > 0
    /\ m.sender \in {"user", "puppet"}
    /\ m.type \in {"text", "voice"}
    /\ m.text # <<>>
    /\ m.timestamp >= 0

\* C18: addMessage never throws; it returns true and appends the message
\* when the message is well formed, and returns false and leaves the
\* history unchanged otherwise.
C18_AddIffValid ==
    probe.fn = "addMessage" =>
        /\ probe.thrown = NoError
        /\ IF WellFormedMessage(probe.arg)
           THEN /\ probe.ret = BoolData(TRUE)
                /\ eng.session.conversationHistory =
                       Append(probe.before, probe.arg)
           ELSE /\ probe.ret = BoolData(FALSE)
                /\ eng.session.conversationHistory = probe.before

\* C19: every Message that was constructed satisfies the Message
\* invariant: the objects new Message returns and the messages an engine
\* hands to its listeners.
C19_MessagesWellFormed ==
    /\ (probe.fn = "Message" /\ probe.thrown = NoError) =>
           WellFormedMessage(probe.ret)
    /\ subject = "schema" =>
           \A a \in acts : \A i \in 1..Len(a.events) :
               a.events[i].event = "messageReceived" =>
                   WellFormedMessage(a.events[i].data)

\* the events of the latest call and of the suspended calls
EmittedEvents ==
    { last.events[i] : i \in 1..Len(last.events) } \cup
    UNION { { a.events[i] : i \in 1..Len(a.events) } : a \in acts }

\* C20: every emit of an engine invokes all the listeners registered for
\* the event, no call ends with the error of a listener, and the engine is
\* Processing only while a turn is suspended.
C20_ListenerIsolation ==
    subject \in {"schema", "simple"} =>
        /\ \A e \in EmittedEvents : e.heard = Len(Listeners(e.event))
        /\ last.thrown.kind # "listener"
        /\ (Processing => acts # {})

----------------------------------------------------------------------------

\* h2 is h1, or h1 with one message appended
SameOrAppended(h1, h2) ==
    \/ h2 = h1
    \/ Len(h2) = Len(h1) + 1 /\ SubSeq(h2, 1, Len(h1)) = h1

\* a step of the suspended turn itself: the provider answers or a timer fires
TurnStep ==
    \/ \E a \in acts, out \in Outcomes : SchemaRespond(a, out)
    \/ \E a \in acts : SchemaBackoffElapsed(a)
    \/ \E a \in acts, out \in Outcomes : SimpleRespond(a, out)
    \/ \E a \in acts : SimpleBackoffElapsed(a)

\* C21: while an engine is Processing its Session is not replaced, and its
\* history changes only by an append made by the suspended turn itself.
C21_HistoryExclusive ==
    [][ /\ (subject = "schema" /\ eng.isProcessing) =>
               /\ eng'.session.sessionId = eng.session.sessionId
               /\ SameOrAppended(eng.session.conversationHistory,
                                 eng'.session.conversationHistory)
               /\ (eng'.session.conversationHistory #
                       eng.session.conversationHistory => TurnStep)
        /\ (subject = "simple" /\ simple.isProcessing) =>
               /\ SameOrAppended(simple.conversationHistory,
                                 simple'.conversationHistory)
               /\ (simple'.conversationHistory # simple.conversationHistory
                       => TurnStep)
      ]_vars

\* every user entry of the history h is followed at once by a reply; only
\* the last entry may be a user entry, and only while its turn is running
UserThenReply(h, isUser, isReply, running) ==
    \A i \in 1..Len(h) :
        isUser[i] => IF i < Len(h) THEN isReply[i + 1] ELSE running

\* C22: in every history each user message is followed immediately by a
\* reply (also when the provider failed), a user message is last only while
\* its turn is Processing, and the timestamps follow the history order.
C22_TurnOrder ==
    /\ (subject = "schema" /\ eng.session # NoSession) =>
           LET h == eng.session.conversationHistory
           IN  /\ UserThenReply(h, [i \in 1..Len(h) |-> h[i].sender = "user"],
                                [i \in 1..Len(h) |-> h[i].sender = "puppet"],
                                eng.isProcessing)
               /\ \A i \in 1..(Len(h) - 1) : h[i].timestamp <= h[i + 1].timestamp
    /\ subject = "simple" =>
           LET h == simple.conversationHistory
           IN  UserThenReply(h, [i \in 1..Len(h) |-> h[i].role = "user"],
                             [i \in 1..Len(h) |-> h[i].role = "assistant"],
                             simple.isProcessing)

\* C23: initialize has emitted messageReceived for a puppet greeting and
\* then 'initialized'; the engine holds a new active Session for the given
\* userId ('anonymous' when none is given) whose history is the greeting
\* alone, and an engine that was Uninitialized accepts turns.
C23_InitializeGreets ==
    last.op = "initialize" =>
        /\ last.ret.success
        /\ Len(last.events) = 2
        /\ last.events[1].event = "messageReceived"
        /\ last.events[1].data.sender = "puppet"
        /\ last.events[1].stored
        /\ last.events[2].event = "initialized"
        /\ eng.session # NoSession
        /\ eng.session.sessionId = nsessions
        /\ eng.session.active
        /\ eng.session.userId =
               (IF cfg.userId # "" THEN cfg.userId ELSE "anonymous")
        /\ eng.session.conversationHistory = << last.events[1].data >>
        /\ (nsessions = 1 => ~ProcessGuardRejects)

\* the engine or a direct caller ends the session
EndSessionCall == SchemaEndSession \/ CallEndSession

\* C24: a Session is active when it is created, no step turns the active
\* flag of a Session from false to true, and endSession on a Session that
\* has ended leaves the Session as it was.
C24_ActiveMonotone ==
    [][ /\ (eng'.session # NoSession /\
            eng'.session.sessionId # eng.session.sessionId) =>
               eng'.session.active
        /\ (eng.session # NoSession /\ ~eng.session.active /\
            eng'.session.sessionId = eng.session.sessionId) =>
               ~eng'.session.active
        /\ (eng.session # NoSession /\ ~eng.session.active /\ EndSessionCall) =>
               eng'.session = eng.session
      ]_vars

\* endSession was called on a Session that had ended and held messages
C24_Witness ==
    /\ probe.fn = "endSession"
    /\ probe.arg = BoolData(FALSE)
    /\ ~eng.session.active
    /\ eng.session.conversationHistory # <<>>

\* C25: a valid Message rebuilt by the constructor from its toJSON object is
\* valid and has the id, sender, text, timestamp, type and metadata of the
\* original.
C25_RoundTrip ==
    (probe.fn = "toJSON" /\ MessageValidate(probe.arg)) =>
        /\ probe.thrown = NoError
        /\ MessageValidate(probe.ret)
        /\ probe.ret.id = probe.arg.id
        /\ probe.ret.sender = probe.arg.sender
        /\ probe.ret.text = probe.arg.text
        /\ probe.ret.timestamp = probe.arg.timestamp
        /\ probe.ret.type = probe.arg.type
        /\ probe.ret.metadata = probe.arg.metadata

\* a valid puppet voice message, built with the default id, was rebuilt
C25_Witness ==
    /\ probe.fn = "toJSON"
    /\ MessageValidate(probe.arg)
    /\ probe.arg.sender = "puppet"
    /\ probe.arg.type = "voice"
    /\ probe.ret.type = "voice"
    /\ probe.ret.id = clock + 1

\* the provider answers the pending fetch of the call a with out
Responds(a, out) ==
    SchemaRespond(a, out) \/ SimpleRespond(a, out) \/ ClientRespond(a, out)

\* the attempt of a that was pending has failed: the call is waiting for its
\* next attempt, or it has ended and its retry wrapper threw
AttemptFailed(a) ==
    \/ \E b \in acts' : /\ b.cid = a.cid
                        /\ b.pc = "backoff"
                        /\ b.failures = a.failures + 1
    \/ /\ last'.cid = a.cid
       /\ last'.wrapped.status = "thrown"
       /\ last'.failures = a.failures + 1

\* C26: a non-2xx response and a 2xx response whose body lacks the reply
\* text both make the attempt fail: it is retried, or, when it was the last
\* one, the retry wrapper throws; such a body is never returned as a reply.
C26_BadResponseFails ==
    [][ \A a \in acts, out \in Outcomes :
            (out.kind \in {"http", "malformed", "nocontent"} /\ Responds(a, out))
                => AttemptFailed(a) ]_vars

\* the context an engine would compute from its history now
CurrentContext ==
    IF subject = "schema"
    THEN FormatMessages(SliceLast(eng.session.conversationHistory,
                                  cfg.maxHistory))
    ELSE SliceLast(simple.conversationHistory, cfg.maxHistory)

\* every fetch issued in this step carries the context of its moment
FetchCarriesContext ==
    \A b \in acts' :
        (b.pc = "fetch" /\ b \notin acts) =>
            /\ Len(b.context) <= cfg.maxHistory
            /\ b.context = CurrentContext'
            /\ b.context # <<>>
            /\ b.context[Len(b.context)] = [role |-> "user", content |-> b.text]

\* C27: the request of every fetch an engine issues carries the last
\* cfg.maxHistory messages of the history as it is when the fetch is issued,
\* in their order, and its final message is the user message of the turn.
C27_RequestContext ==
    [][ (subject \in {"schema", "simple"}) => FetchCarriesContext ]_vars

\* C28: the attempt counter of every retried call counts the failures of
\* that call alone, whatever the calls before it did, and a call whose
\* wrapper threw after retrying has made all its MaxAttempts attempts.
C28_FreshBudget ==
    /\ \A a \in acts :
          /\ (a.pc = "fetch" => a.attempt = a.failures + 1)
          /\ (a.pc = "backoff" => a.attempt = a.failures)
          /\ a.attempt <= MaxAttempts
    /\ ((last.wrapped.status = "thrown" /\ last.attempts > 0) =>
           (last.attempts = MaxAttempts /\ last.failures = MaxAttempts))
    /\ (last.wrapped.status = "returned" =>
           (last.attempts = last.failures + 1 /\ last.attempts <= MaxAttempts))

\* the second call of a client used all three attempts while the first
\* call, itself past its first attempt, was still running
C28_Witness ==
    /\ subject = "client"
    /\ MaxAttempts = 3
    /\ last.cid = 2
    /\ last.wrapped.status = "thrown"
    /\ last.failures = 3
    /\ \E a \in acts : a.cid = 1 /\ a.attempt >= 2

\* initialize has not run: the Session/Message engine has built no Session,
\* the history-array engine has run no operation since its construction
Uninitialized ==
    \/ subject = "schema" /\ nsessions = 0
    \/ subject = "simple" /\ last.op = "constructor"

\* C29: a processUserMessage / sendMessage call on an engine on which
\* initialize has not run returns null, starts no provider call, emits no
\* event and leaves the engine and its history unchanged.
C29_NoTurnBeforeInitialize ==
    [][ (Uninitialized /\ \E t \in UserTexts : TurnCall(t)) =>
        (/\ last'.ret = Null
         /\ last'.fetches = 0
         /\ last'.events = <<>>
         /\ acts' = acts
         /\ eng' = eng
         /\ simple' = simple) ]_vars

IsProcessingEvent(e) == e.event = "processing"

\* C30: when an accepted processUserMessage / sendMessage call has ended,
\* by a reply, a fallback or an error, the engine is not Processing, and a
\* sendMessage call has emitted 'processing' true and, after it,
\* 'processing' false.
C30_FlagReleased ==
    AcceptedTurnDone =>
        /\ ~Processing
        /\ subject = "simple" =>
               LET ps == SelectSeq(last.events, IsProcessingEvent)
               IN  /\ Len(ps) = 2
                   /\ ps[1].data = BoolData(TRUE)
                   /\ ps[2].data = BoolData(FALSE)

----------------------------------------------------------------------------

\* C31: every message the Session/Message engine has emitted through
\* messageReceived (greeting, user message, reply or fallback) was in the
\* history of its Session when it was emitted.
C31_EmittedIsStored ==
    subject = "schema" =>
        \A e \in EmittedEvents :
            e.event = "messageReceived" => e.stored

\* C32: the messages of one processUserMessage call, the user message and
\* the reply, were added to one and the same Session.
C32_OneSessionPerTurn ==
    (subject = "schema" /\ last.op = "processUserMessage") =>
        \A i, j \in 1..Len(last.sids) : last.sids[i] = last.sids[j]

\* C33: in the application the input is not enabled while the engine is
\* Processing a message, and it is enabled when no turn is in flight.
C33_InputDisabledInFlight ==
    subject = "app" =>
        /\ (simple.isProcessing => ~ui.inputEnabled)
        /\ (~simple.isProcessing => ui.inputEnabled)

KnownProviders == {"openai", "claude"}

\* what the latest setProvider call did
SetProviderEffect ==
    probe.fn = "setProvider" =>
        IF probe.arg.value.name \in KnownProviders
        THEN /\ probe.ret = BoolData(TRUE)
             /\ cfg.apiProvider = probe.arg.value.name
        ELSE /\ probe.ret = BoolData(FALSE)
             /\ cfg.apiProvider = probe.arg.value.was

\* a known provider stays a known provider
ProviderStaysKnown ==
    (subject = "provider" /\ cfg.apiProvider \in KnownProviders) =>
        cfg'.apiProvider \in KnownProviders

\* C34: setProvider sets the provider and returns true for 'openai' and
\* 'claude', returns false and leaves the provider as it was for any other
\* name, and a client whose provider is one of the two keeps it so.
C34_SetProviderKnownOnly == []SetProviderEffect /\ [][ProviderStaysKnown]_vars

\* an unknown name was refused by a client whose provider was claude
C34_Witness ==
    /\ probe.fn = "setProvider"
    /\ probe.arg.value.name = "other"
    /\ probe.arg.value.was = "claude"
    /\ probe.ret = BoolData(FALSE)
    /\ cfg.apiProvider = "claude"

\* how often the subscription i occurs in the sequence ids
RECURSIVE Occurrences(_, _)
Occurrences(i, ids) ==
    IF ids = <<>> THEN 0
    ELSE (IF Head(ids) = i THEN 1 ELSE 0) + Occurrences(i, Tail(ids))

\* C35: a setState call notifies every subscription whose unsubscribe
\* handle has not been called exactly once, also when a subscriber throws,
\* and no subscription whose handle has been called; it sets the keys of its
\* update, leaves the other keys as they were, and appends one entry to the
\* state history.
C35_SubscribersNotified ==
    (subject = "state" /\ store.op.name = "setState") =>
        /\ \A i \in 1..Len(store.handles) :
               Occurrences(i, store.op.notified) =
                   (IF i \in store.called THEN 0 ELSE 1)
        /\ \A k \in DOMAIN store.op.updates : store.state[k] = store.op.updates[k]
        /\ \A k \in DOMAIN store.op.before :
               k \notin DOMAIN store.op.updates =>
                   store.state[k] = store.op.before[k]
        /\ DOMAIN store.state = DOMAIN store.op.before \cup DOMAIN store.op.updates
        /\ Len(store.history) = store.op.histLen + 1

\* the states the Puppet's constructor defines
KnownStates == DOMAIN DefaultAnimationStates

\* the animation states that are true
ActiveStates ==
    { k \in DOMAIN puppetState.animationStates : puppetState.animationStates[k] }

\* C36: after any sequence of setAnimationState calls on a default Puppet at
\* most one animation state is true, and a call whose name is not one of the
\* known states has left every state as it was.
C36_AnimationExclusive ==
    (subject = "puppet" /\ puppetState.call.name # "constructor") =>
        /\ Cardinality(ActiveStates) <= 1
        /\ puppetState.call.name \notin KnownStates =>
               \A k \in DOMAIN puppetState.before :
                   puppetState.animationStates[k] = puppetState.before[k]

====
